---- MODULE Spec2Model ----
(***************************************************************************)
(* A model of the resume extraction tool: main.py (document ingestion,     *)
(* prompt formatting, the memoized model client, the extraction and the    *)
(* validation step) and app.py (the Streamlit button handler that runs the *)
(* two steps on an uploaded PDF and renders the results).                  *)
(*                                                                         *)
(* Three specifications share the state:                                   *)
(*   Spec       the button handler of app.py, run after run in one process *)
(*   SpecModel  a sequence of get_model calls, each run to completion      *)
(*   SpecRace   get_model called from several script threads at once       *)
(*              (Streamlit runs each session's script in its own thread),  *)
(*              one statement of get_model per step                        *)
(***************************************************************************)
EXTENDS Integers, Sequences, FiniteSets, TLC

VARIABLES
    \* main.py globals (lines 12-14) and the allocator of object identities
    _model, _json_model, nextId,
    \* how often each global was assigned (observation)
    writes,
    \* SpecModel: the calls made so far, in order
    calls,
    \* SpecRace: per thread, the statement it is at, its json_mode argument,
    \* its local base_model, the number of calls started, the values returned
    tpc, tjm, tlocal, tcalls, trets,
    \* Spec: the button handler's position and locals
    pc, stage, runs, fields_description, tmpfile,
    docs, content, template, prompt, model, response,
    extracted_data, validation_result, exc,
    todo, events, screen

slotVars == <<_model, _json_model, nextId, writes>>
raceVars == <<tpc, tjm, tlocal, tcalls, trets>>
runVars  == <<pc, stage, runs, fields_description, tmpfile, docs, content, template,
              prompt, model, response, extracted_data, validation_result, exc,
              todo, events, screen>>
vars == <<slotVars, calls, raceVars, runVars>>

-----------------------------------------------------------------------------
(* Bounds *)

MaxCalls == 4          \* SpecModel: get_model calls in a sequence
NumThreads == 2        \* SpecRace: script threads
MaxThreadCalls == 2    \* SpecRace: get_model calls per thread
MaxRuns == 2           \* Spec: button clicks in one process
MaxChunks == 2         \* chunks the loader yields
MaxChunkLen == 2       \* characters of one chunk's page_content

-----------------------------------------------------------------------------
(* Python values *)

\* None, in a variable that otherwise holds a model handle
None == [id |-> 0, json |-> FALSE]

\* an object built by init_chat_model / with_structured_output: its identity
\* and whether it is the structured-output wrapper
Handle(i, j) == [id |-> i, json |-> j]

\* {} : the empty dict
EmptyDict == [k \in {} |-> 0]

\* d.get(k, dflt) on a dict
Get(d, k, dflt) == IF k \in DOMAIN d THEN d[k] ELSE dflt

-----------------------------------------------------------------------------
(* get_model, main.py 58-70 *)

\* the global that get_model(json_mode) uses
Slot(json_mode) == IF json_mode THEN _json_model ELSE _model

\* get_model(json_mode) run to completion. ok: init_chat_model and
\* with_structured_output return (they raise otherwise, and the global keeps
\* its value). ret is the value returned, None when the call raised.
\* a variant with one cache for both modes
get_model_shared(json_mode, ok, ret) ==
    IF _model = None
    THEN IF ok
         THEN /\ _model' = Handle(nextId, json_mode)
              /\ nextId' = nextId + 1
              /\ writes' = [writes EXCEPT !["_model"] = @ + 1]
              /\ ret = _model'
              /\ UNCHANGED _json_model
         ELSE /\ ret = None
              /\ UNCHANGED slotVars
    ELSE /\ ret = _model
         /\ UNCHANGED slotVars

get_model(json_mode, ok, ret) ==
    IF json_mode
    THEN IF _json_model = None
         THEN IF ok
              THEN \* base_model is nextId, the wrapper nextId + 1
                   /\ _json_model' = Handle(nextId + 1, TRUE)
                   /\ nextId' = nextId + 2
                   /\ writes' = [writes EXCEPT !["_json_model"] = @ + 1]
                   /\ ret = _json_model'
                   /\ UNCHANGED _model
              ELSE /\ ret = None
                   /\ UNCHANGED slotVars
         ELSE /\ ret = _json_model
              /\ UNCHANGED slotVars
    ELSE IF _model = None
         THEN IF ok
              THEN /\ _model' = Handle(nextId, FALSE)
                   /\ nextId' = nextId + 1
                   /\ writes' = [writes EXCEPT !["_model"] = @ + 1]
                   /\ ret = _model'
                   /\ UNCHANGED _json_model
              ELSE /\ ret = None
                   /\ UNCHANGED slotVars
         ELSE /\ ret = _model
              /\ UNCHANGED slotVars

\* the values a call of get_model can return in the current state
Handles == {None} \cup {Handle(i, j) : i \in 1..(nextId + 1), j \in BOOLEAN}

\* whether get_model(json_mode) would call init_chat_model
NeedsInit(json_mode) == Slot(json_mode) = None

SlotInit ==
    /\ _model = None
    /\ _json_model = None
    /\ nextId = 1
    /\ writes = [s \in {"_model", "_json_model"} |-> 0]

-----------------------------------------------------------------------------
(* SpecModel: a sequence of get_model calls *)

GetModelCall(json_mode, ok) ==
    /\ Len(calls) < MaxCalls
    /\ (~NeedsInit(json_mode) => ok)
    /\ \E ret \in Handles :
          /\ get_model(json_mode, ok, ret)
          /\ calls' = Append(calls, [json_mode |-> json_mode,
                                     built |-> nextId' # nextId,
                                     ret |-> ret])
    /\ UNCHANGED <<raceVars, runVars>>

-----------------------------------------------------------------------------
(* SpecRace: get_model, one statement per step, in several threads *)

Threads == 1..NumThreads

\* a script thread calls get_model(json_mode)
TCall(t, json_mode) ==
    /\ tpc[t] = "idle"
    /\ tcalls[t] < MaxThreadCalls
    /\ tpc' = [tpc EXCEPT ![t] = "test"]
    /\ tjm' = [tjm EXCEPT ![t] = json_mode]
    /\ tcalls' = [tcalls EXCEPT ![t] = @ + 1]
    /\ UNCHANGED <<slotVars, calls, tlocal, trets, runVars>>

\* lines 63 / 68: if <global> is None
TTest(t) ==
    /\ tpc[t] = "test"
    /\ tpc' = [tpc EXCEPT ![t] = IF Slot(tjm[t]) = None THEN "init" ELSE "return"]
    /\ UNCHANGED <<slotVars, calls, tjm, tlocal, tcalls, trets, runVars>>

\* lines 64 / 69: the call of init_chat_model returns a new object
TInit(t) ==
    /\ tpc[t] = "init"
    /\ tlocal' = [tlocal EXCEPT ![t] = Handle(nextId, FALSE)]
    /\ nextId' = nextId + 1
    /\ tpc' = [tpc EXCEPT ![t] = "store"]
    /\ UNCHANGED <<_model, _json_model, writes, calls, tjm, tcalls, trets, runVars>>

\* lines 64 / 69: the call of init_chat_model raises; get_model ends
TInitRaise(t) ==
    /\ tpc[t] = "init"
    /\ tpc' = [tpc EXCEPT ![t] = "idle"]
    /\ trets' = [trets EXCEPT ![t] = Append(@, None)]
    /\ UNCHANGED <<slotVars, calls, tjm, tlocal, tcalls, runVars>>

\* line 65: _json_model = base_model.with_structured_output(...)
\* line 69: _model = <the object init_chat_model returned>
TStore(t) ==
    /\ tpc[t] = "store"
    /\ IF tjm[t]
       THEN /\ _json_model' = Handle(nextId, TRUE)
            /\ nextId' = nextId + 1
            /\ writes' = [writes EXCEPT !["_json_model"] = @ + 1]
            /\ UNCHANGED _model
       ELSE /\ _model' = tlocal[t]
            /\ writes' = [writes EXCEPT !["_model"] = @ + 1]
            /\ UNCHANGED <<_json_model, nextId>>
    /\ tlocal' = [tlocal EXCEPT ![t] = None]
    /\ tpc' = [tpc EXCEPT ![t] = "return"]
    /\ UNCHANGED <<calls, tjm, tcalls, trets, runVars>>

\* lines 66 / 70: return <global>
TReturn(t) ==
    /\ tpc[t] = "return"
    /\ trets' = [trets EXCEPT ![t] = Append(@, Slot(tjm[t]))]
    /\ tpc' = [tpc EXCEPT ![t] = "idle"]
    /\ UNCHANGED <<slotVars, calls, tjm, tlocal, tcalls, runVars>>

RaceInit ==
    /\ tpc = [t \in Threads |-> "idle"]
    /\ tjm = [t \in Threads |-> FALSE]
    /\ tlocal = [t \in Threads |-> None]
    /\ tcalls = [t \in Threads |-> 0]
    /\ trets = [t \in Threads |-> <<>>]

-----------------------------------------------------------------------------
(* JSON values as the structured-output model returns them: a dict is a     *)
(* function from its keys, every other value carries its type as its field. *)

Str(s) == [str |-> s]
Num(n) == [num |-> n]
List(items) == [list |-> items]
Dict(d) == [dict |-> d]
\* Python's None as a value of dict.get
NoneValue == [none |-> TRUE]

IsNum(v) == DOMAIN v = {"num"}
IsList(v) == DOMAIN v = {"list"}
IsDictItem(v) == DOMAIN v = {"dict"}

\* bool(v)
Truthy(v) ==
    IF DOMAIN v = {"str"} THEN v.str # ""
    ELSE IF DOMAIN v = {"num"} THEN v.num # 0
    ELSE IF DOMAIN v = {"list"} THEN v.list # <<>>
    ELSE IF DOMAIN v = {"none"} THEN FALSE
    ELSE DOMAIN v # {}

-----------------------------------------------------------------------------
(* load_pdf_content, main.py 26-49 *)

\* "PDF content unavailable", a string being the sequence of its characters
Sentinel == <<"P", "D", "F", " ", "c", "o", "n", "t", "e", "n", "t", " ",
              "u", "n", "a", "v", "a", "i", "l", "a", "b", "l", "e">>

RECURSIVE Join(_, _)
\* sep.join(strs)
Join(sep, strs) ==
    IF strs = <<>> THEN <<>>
    ELSE IF Len(strs) = 1 THEN strs[1]
    ELSE strs[1] \o sep \o Join(sep, Tail(strs))

\* a variant without the sentinel
load_pdf_content_empty(chunks) ==
    Join(<<" ">>, [i \in 1..Len(chunks) |-> chunks[i].page_content])

\* what load_pdf_content returns when the loader yields the Documents chunks
load_pdf_content(chunks) ==
    IF chunks # <<>>
    THEN Join(<<" ">>, [i \in 1..Len(chunks) |-> chunks[i].page_content])
    ELSE Sentinel

-----------------------------------------------------------------------------
(* str.format, main.py 108-111 and 131-134 *)

\* template.format(**kwargs) raises KeyError when the template names a
\* placeholder that kwargs lacks
FormatRaises(tmpl, kwargs) == ~(tmpl.fields \subseteq DOMAIN kwargs)

\* the formatted text: the template with each placeholder's value
Format(tmpl, kwargs) ==
    [file |-> tmpl.file, values |-> [f \in tmpl.fields |-> kwargs[f]]]

\* json.dumps(d, indent=2): the text, by the value it denotes
json_dumps(d) == [json_text |-> d]

-----------------------------------------------------------------------------
(* call_llm, main.py 72-89 *)

\* a variant that drops the empty values of a structured result
call_llm_return_dropping(result, json_mode) ==
    IF json_mode
    THEN [k \in {f \in DOMAIN result : Truthy(result[f])} |-> result[k]]
    ELSE result.content

\* lines 86-89: what call_llm returns for the result of model.ainvoke
call_llm_return(result, json_mode) ==
    IF json_mode THEN result ELSE result.content

-----------------------------------------------------------------------------
(* Inputs: what the user, the loader, the template files and the hosted     *)
(* model can supply                                                         *)

FieldDescriptions == {"DEFAULT_FIELDS", "Name, Email, Skills"}

Chars == {"a", " "}
Texts == UNION {[1..n -> Chars] : n \in 0..MaxChunkLen}
ChunkSeqs == UNION {[1..n -> [page_content : Texts]] : n \in 0..MaxChunks}

\* the contents prompt.md and validation_prompt.md can have: the placeholders
\* the step supplies, or one more
TemplateFile(st) == IF st = "extract" THEN "prompt.md" ELSE "validation_prompt.md"
StepFields(st) ==
    IF st = "extract" THEN {"fields_description", "content"}
    ELSE {"fields_description", "extracted_data"}
Templates(st) ==
    {[file |-> TemplateFile(st), fields |-> StepFields(st)],
     [file |-> TemplateFile(st), fields |-> StepFields(st) \cup {"schema"}]}

FieldNames == {"name", "skills"}
FieldValues ==
    {Str("Jane Doe"), Str(""), List(<<>>),
     List(<<Str("Python"), Dict([title |-> Str("Dev")])>>)}
ExtractionResponses == UNION {[S -> FieldValues] : S \in SUBSET FieldNames}

Evaluations ==
    {EmptyDict,
     [score |-> Num(10), coverage |-> Str("full"), correctness |-> Str("exact"),
      issues |-> Str("")],
     [score |-> Num(7)],
     [coverage |-> Str("partial")],
     [score |-> Str("n/a")]}
FieldEvaluations == UNION {[S -> Evaluations] : S \in SUBSET FieldNames}
ValidationResponses ==
    UNION {
        {[overall_score |-> o, field_evaluations |-> fe],
         [overall_score |-> o, summary |-> Str("Strong match"), field_evaluations |-> fe]}
        : o \in {Num(9), Str("high")}, fe \in FieldEvaluations}
    \cup {[overall_score |-> Num(6)], [summary |-> Str("Strong match")], EmptyDict}

ModelResponses(st) ==
    IF st = "extract" THEN ExtractionResponses ELSE ValidationResponses

IngestionErrors == {"FileNotFoundError", "ValueError"}
ModelErrors == {"APIConnectionError", "OutputParserException"}

\* the orders in which a dict with the keys S can list them
Orders(S) == {o \in UNION {[1..n -> S] : n \in {Cardinality(S)}} :
                 \A i, j \in DOMAIN o : i # j => o[i] # o[j]}

-----------------------------------------------------------------------------
(* The button handler, app.py 73-185, and the steps of main.py it runs *)

Ev(st, op, ev, err) == [stage |-> st, op |-> op, ev |-> ev, err |-> err]

NoLocals ==
    /\ docs' = <<>>
    /\ content' = <<>>
    /\ template' = EmptyDict
    /\ prompt' = EmptyDict
    /\ model' = None

\* an exception e leaves the step st of main.py at operation op and reaches
\* the handler's except clause (app.py 176)
Raise(st, op, e, before) ==
    /\ exc' = e
    /\ events' = events \o before \o
                 <<Ev(st, op, "raise", e), Ev(st, "step", "raise", e)>>
    /\ pc' = "except"
    /\ NoLocals

\* app.py 73: the button is clicked with a file uploaded; Streamlit reruns the
\* script, which starts with an empty page and fresh locals
Click ==
    /\ pc \in {"idle", "done"}
    /\ runs < MaxRuns
    /\ runs' = runs + 1
    /\ \E fd \in FieldDescriptions : fields_description' = fd
    /\ pc' = "tmp_create"
    /\ stage' = "none"
    /\ tmpfile' = "none"
    /\ NoLocals
    /\ response' = EmptyDict
    /\ extracted_data' = EmptyDict
    /\ validation_result' = EmptyDict
    /\ exc' = "none"
    /\ todo' = <<>>
    /\ events' = <<>>
    /\ screen' = <<>>
    /\ UNCHANGED <<slotVars, calls, raceVars>>

\* app.py 75: tempfile.NamedTemporaryFile(delete=False, suffix=".pdf")
CreateTmp ==
    /\ pc = "tmp_create"
    /\ tmpfile' = "exists"
    /\ events' = Append(events, Ev("none", "tmp_create", "return", "none"))
    /\ pc' = "tmp_write"
    /\ UNCHANGED <<slotVars, calls, raceVars, stage, runs, fields_description,
                   docs, content, template, prompt, model, response,
                   extracted_data, validation_result, exc, todo, screen>>

\* app.py 75: NamedTemporaryFile raises; nothing was created and the error
\* leaves the script (the try starts at line 79)
CreateTmpRaise ==
    /\ pc = "tmp_create"
    /\ exc' = "OSError"
    /\ events' = Append(events, Ev("none", "tmp_create", "raise", "OSError"))
    /\ pc' = "done"
    /\ UNCHANGED <<slotVars, calls, raceVars, stage, runs, fields_description,
                   tmpfile, docs, content, template, prompt, model, response,
                   extracted_data, validation_result, todo, screen>>

\* app.py 76-77: tmp_file.write(uploaded_file.getvalue()), and the with block
\* closes the file
WriteTmp ==
    /\ pc = "tmp_write"
    /\ events' = Append(events, Ev("none", "tmp_write", "return", "none"))
    /\ pc' = "load"
    /\ stage' = "extract"
    /\ UNCHANGED <<slotVars, calls, raceVars, runs, fields_description, tmpfile,
                   docs, content, template, prompt, model, response,
                   extracted_data, validation_result, exc, todo, screen>>

\* app.py 76: the write (or the close) raises, e.g. no space left: the file
\* exists, and the error leaves the script before the try of line 79
WriteTmpRaise ==
    /\ pc = "tmp_write"
    /\ exc' = "OSError"
    /\ events' = Append(events, Ev("none", "tmp_write", "raise", "OSError"))
    /\ pc' = "done"
    /\ UNCHANGED <<slotVars, calls, raceVars, stage, runs, fields_description,
                   tmpfile, docs, content, template, prompt, model, response,
                   extracted_data, validation_result, todo, screen>>

\* main.py 104: content = await load_pdf_content(pdf_path)
LoadPdf ==
    /\ pc = "load"
    /\ \E chunks \in ChunkSeqs :
          /\ docs' = chunks
          /\ content' = load_pdf_content(chunks)
    /\ events' = events \o <<Ev(stage, "load_pdf_content", "call", "none"),
                             Ev(stage, "load_pdf_content", "return", "none")>>
    /\ pc' = "read"
    /\ UNCHANGED <<slotVars, calls, raceVars, stage, runs, fields_description,
                   tmpfile, template, prompt, model, response, extracted_data,
                   validation_result, exc, todo, screen>>

\* a variant that goes on with the sentinel when the loader raises
LoadPdfRaiseContinue ==
    /\ pc = "load"
    /\ \E e \in IngestionErrors :
          events' = events \o <<Ev(stage, "load_pdf_content", "call", "none"),
                                Ev(stage, "load_pdf_content", "raise", e)>>
    /\ docs' = <<>>
    /\ content' = Sentinel
    /\ pc' = "read"
    /\ UNCHANGED <<slotVars, calls, raceVars, stage, runs, fields_description,
                   tmpfile, template, prompt, model, response, extracted_data,
                   validation_result, exc, todo, screen>>

\* main.py 104: the loader raises
LoadPdfRaise ==
    /\ pc = "load"
    /\ \E e \in IngestionErrors :
          Raise(stage, "load_pdf_content", e,
                <<Ev(stage, "load_pdf_content", "call", "none")>>)
    /\ UNCHANGED <<slotVars, calls, raceVars, stage, runs, fields_description,
                   tmpfile, response, extracted_data, validation_result, todo,
                   screen>>

\* main.py 107 / 130: read_markdown_file(...)
ReadTemplate ==
    /\ pc = "read"
    /\ \E t \in Templates(stage) : template' = t
    /\ events' = events \o <<Ev(stage, "read_markdown_file", "call", "none"),
                             Ev(stage, "read_markdown_file", "return", "none")>>
    /\ pc' = "format"
    /\ UNCHANGED <<slotVars, calls, raceVars, stage, runs, fields_description,
                   tmpfile, docs, content, prompt, model, response,
                   extracted_data, validation_result, exc, todo, screen>>

\* main.py 54: open raises
ReadTemplateRaise ==
    /\ pc = "read"
    /\ Raise(stage, "read_markdown_file", "FileNotFoundError",
             <<Ev(stage, "read_markdown_file", "call", "none")>>)
    /\ UNCHANGED <<slotVars, calls, raceVars, stage, runs, fields_description,
                   tmpfile, response, extracted_data, validation_result, todo,
                   screen>>

\* the keyword arguments of the step's format call
FormatArgs ==
    IF stage = "extract"
    THEN [fields_description |-> fields_description, content |-> content]
    ELSE [fields_description |-> fields_description,
          extracted_data |-> json_dumps(extracted_data)]

\* main.py 108-111 / 131-134: template.format(...)
FormatPrompt ==
    /\ pc = "format"
    /\ ~FormatRaises(template, FormatArgs)
    /\ prompt' = Format(template, FormatArgs)
    /\ events' = events \o <<Ev(stage, "format", "call", "none"),
                             Ev(stage, "format", "return", "none")>>
    /\ pc' = "model"
    /\ UNCHANGED <<slotVars, calls, raceVars, stage, runs, fields_description,
                   tmpfile, docs, content, template, model, response,
                   extracted_data, validation_result, exc, todo, screen>>

FormatPromptRaise ==
    /\ pc = "format"
    /\ FormatRaises(template, FormatArgs)
    /\ Raise(stage, "format", "KeyError", <<Ev(stage, "format", "call", "none")>>)
    /\ UNCHANGED <<slotVars, calls, raceVars, stage, runs, fields_description,
                   tmpfile, response, extracted_data, validation_result, todo,
                   screen>>

\* main.py 83: model = get_model(json_mode=True)
CallGetModel ==
    /\ pc = "model"
    /\ \E ret \in Handles :
          /\ get_model(TRUE, TRUE, ret)
          /\ model' = ret
    /\ events' = events \o <<Ev(stage, "get_model", "call", "none"),
                             Ev(stage, "get_model", "return", "none")>>
    /\ pc' = "invoke"
    /\ UNCHANGED <<calls, raceVars, stage, runs, fields_description, tmpfile,
                   docs, content, template, prompt, response, extracted_data,
                   validation_result, exc, todo, screen>>

\* main.py 83: get_model raises (init_chat_model does, e.g. no credential)
CallGetModelRaise ==
    /\ pc = "model"
    /\ NeedsInit(TRUE)
    /\ get_model(TRUE, FALSE, None)
    /\ Raise(stage, "get_model", "ValueError",
             <<Ev(stage, "get_model", "call", "none")>>)
    /\ UNCHANGED <<calls, raceVars, stage, runs, fields_description, tmpfile,
                   response, extracted_data, validation_result, todo, screen>>

\* main.py 84-87: result = await model.ainvoke(input_data); return result.
\* The step returns it (main.py 115 / 138) and the handler binds it
\* (app.py 87 / 92).
Ainvoke ==
    /\ pc = "invoke"
    /\ \E result \in ModelResponses(stage) :
          /\ response' = result
          /\ IF stage = "extract"
             THEN /\ extracted_data' = call_llm_return(result, TRUE)
                  /\ UNCHANGED validation_result
             ELSE /\ validation_result' = call_llm_return(result, TRUE)
                  /\ UNCHANGED extracted_data
    /\ events' = events \o <<Ev(stage, "ainvoke", "call", "none"),
                             Ev(stage, "ainvoke", "return", "none"),
                             Ev(stage, "step", "return", "none")>>
    /\ stage' = IF stage = "extract" THEN "validate" ELSE "render"
    /\ pc' = IF stage = "extract" THEN "read" ELSE "display"
    /\ NoLocals
    /\ UNCHANGED <<slotVars, calls, raceVars, runs, fields_description, tmpfile,
                   exc, todo, screen>>

\* a variant that goes on to the next stage when the model call raises
AinvokeRaiseContinue ==
    /\ pc = "invoke"
    /\ \E e \in ModelErrors :
          events' = events \o <<Ev(stage, "ainvoke", "call", "none"),
                                Ev(stage, "ainvoke", "raise", e),
                                Ev(stage, "step", "raise", e)>>
    /\ stage' = IF stage = "extract" THEN "validate" ELSE "render"
    /\ pc' = IF stage = "extract" THEN "read" ELSE "display"
    /\ NoLocals
    /\ UNCHANGED <<slotVars, calls, raceVars, runs, fields_description, tmpfile,
                   response, extracted_data, validation_result, exc, todo, screen>>

\* a variant that calls the model again when the call raises
AinvokeRaiseRetry ==
    /\ pc = "invoke"
    /\ \E e \in ModelErrors :
          events' = events \o <<Ev(stage, "ainvoke", "call", "none"),
                                Ev(stage, "ainvoke", "raise", e)>>
    /\ UNCHANGED <<slotVars, calls, raceVars, pc, stage, runs, fields_description,
                   tmpfile, docs, content, template, prompt, model, response,
                   extracted_data, validation_result, exc, todo, screen>>

\* main.py 84: the model call raises
AinvokeRaise ==
    /\ pc = "invoke"
    /\ \E e \in ModelErrors :
          Raise(stage, "ainvoke", e, <<Ev(stage, "ainvoke", "call", "none")>>)
    /\ UNCHANGED <<slotVars, calls, raceVars, stage, runs, fields_description,
                   tmpfile, response, extracted_data, validation_result, todo,
                   screen>>

-----------------------------------------------------------------------------
(* Rendering, app.py 98-174 *)

GreenMin == 8
OrangeMin == 6
DefaultScore == 0

\* app.py 103-108 / 128-133
Color(n) == IF n >= GreenMin THEN "green" ELSE IF n >= OrangeMin THEN "orange" ELSE "red"

RECURSIVE ItemLines(_)
\* app.py 141-146: one output per item of a list value
ItemLines(items) ==
    IF items = <<>> THEN <<>>
    ELSE <<[out |-> IF IsDictItem(Head(items)) THEN "json" ELSE "bullet",
            v |-> Head(items)]>> \o ItemLines(Tail(items))

\* app.py 139-153: the outputs that display an extracted value
ValueLines(value) ==
    IF IsList(value)
    THEN IF Truthy(value) THEN ItemLines(value.list) ELSE <<[out |-> "not_found"]>>
    ELSE IF Truthy(value) THEN <<[out |-> "value", v |-> value]>>
         ELSE <<[out |-> "not_found"]>>

DetailKeys == <<"coverage", "correctness", "issues">>

RECURSIVE DetailFrom(_, _)
DetailFrom(evaluation, i) ==
    IF i > Len(DetailKeys) THEN <<>>
    ELSE (IF Truthy(Get(evaluation, DetailKeys[i], NoneValue))
          THEN <<[label |-> DetailKeys[i], text |-> evaluation[DetailKeys[i]]]>>
          ELSE <<>>) \o DetailFrom(evaluation, i + 1)

\* a variant that shows details only for an evaluation with a score
DetailLinesIfScored(evaluation) ==
    IF "score" \in DOMAIN evaluation THEN DetailFrom(evaluation, 1) ELSE <<>>

\* app.py 156-162: the validation details shown under a field
DetailLines(evaluation) ==
    IF Truthy(evaluation) THEN DetailFrom(evaluation, 1) ELSE <<>>

\* app.py 120, 124: the evaluation looked up for a field
EvaluationOf(field) ==
    Get(Get(validation_result, "field_evaluations", EmptyDict), field, EmptyDict)

\* app.py 125
ScoreOf(field) == Get(EvaluationOf(field), "score", Num(DefaultScore))

\* app.py 102
OverallScore == Get(validation_result, "overall_score", Num(DefaultScore))

\* app.py 99: st.success, then 102-103: comparing a score that is not a
\* number raises TypeError
DisplayRaise ==
    /\ pc = "display"
    /\ ~IsNum(OverallScore)
    /\ screen' = Append(screen, [kind |-> "success"])
    /\ exc' = "TypeError"
    /\ events' = Append(events, Ev(stage, "display", "raise", "TypeError"))
    /\ pc' = "except"
    /\ UNCHANGED <<slotVars, calls, raceVars, stage, runs, fields_description,
                   tmpfile, docs, content, template, prompt, model, response,
                   extracted_data, validation_result, todo>>

\* app.py 99-122: the success line, the overall score, the summary; the loop
\* over extracted_data.items() starts, in the order the dict lists its keys
Display ==
    /\ pc = "display"
    /\ IsNum(OverallScore)
    /\ screen' = screen \o
           <<[kind |-> "success"],
             [kind |-> "overall", score |-> OverallScore.num,
              color |-> Color(OverallScore.num)]>> \o
           (IF "summary" \in DOMAIN validation_result
            THEN <<[kind |-> "summary", text |-> validation_result["summary"]]>>
            ELSE <<>>)
    /\ \E o \in Orders(DOMAIN extracted_data) : todo' = o
    /\ pc' = "fields"
    /\ UNCHANGED <<slotVars, calls, raceVars, stage, runs, fields_description,
                   tmpfile, docs, content, template, prompt, model, response,
                   extracted_data, validation_result, exc, events>>

\* app.py 122-164: one iteration of the loop
RenderField ==
    /\ pc = "fields"
    /\ todo # <<>>
    /\ IsNum(ScoreOf(Head(todo)))
    /\ screen' = Append(screen,
           [kind |-> "field", field |-> Head(todo),
            score |-> ScoreOf(Head(todo)).num,
            color |-> Color(ScoreOf(Head(todo)).num),
            value |-> ValueLines(extracted_data[Head(todo)]),
            detail |-> DetailLines(EvaluationOf(Head(todo)))])
    /\ todo' = Tail(todo)
    /\ UNCHANGED <<slotVars, calls, raceVars, pc, stage, runs, fields_description,
                   tmpfile, docs, content, template, prompt, model, response,
                   extracted_data, validation_result, exc, events>>

\* app.py 128: the field's score is not a number; nothing of the field was
\* output yet
RenderFieldRaise ==
    /\ pc = "fields"
    /\ todo # <<>>
    /\ ~IsNum(ScoreOf(Head(todo)))
    /\ exc' = "TypeError"
    /\ events' = Append(events, Ev(stage, "field", "raise", "TypeError"))
    /\ pc' = "except"
    /\ UNCHANGED <<slotVars, calls, raceVars, stage, runs, fields_description,
                   tmpfile, docs, content, template, prompt, model, response,
                   extracted_data, validation_result, todo, screen>>

\* app.py 167-174: the two expanders with the raw data
RenderRaw ==
    /\ pc = "fields"
    /\ todo = <<>>
    /\ screen' = screen \o <<[kind |-> "raw_extracted", data |-> extracted_data],
                             [kind |-> "raw_validation", data |-> validation_result]>>
    /\ pc' = "finally"
    /\ UNCHANGED <<slotVars, calls, raceVars, stage, runs, fields_description,
                   tmpfile, docs, content, template, prompt, model, response,
                   extracted_data, validation_result, exc, todo, events>>

\* a variant that also shows what was extracted so far
ExceptShowPartial ==
    /\ pc = "except"
    /\ screen' = screen \o <<[kind |-> "error", text |-> exc],
                             [kind |-> "exception", text |-> exc],
                             [kind |-> "raw_extracted", data |-> extracted_data]>>
    /\ exc' = "none"
    /\ pc' = "finally"
    /\ UNCHANGED <<slotVars, calls, raceVars, stage, runs, fields_description,
                   tmpfile, docs, content, template, prompt, model, response,
                   extracted_data, validation_result, todo, events>>

\* app.py 176-178: except Exception as e: st.error(...); st.exception(e)
Except ==
    /\ pc = "except"
    /\ screen' = screen \o <<[kind |-> "error", text |-> exc],
                             [kind |-> "exception", text |-> exc]>>
    /\ exc' = "none"
    /\ pc' = "finally"
    /\ UNCHANGED <<slotVars, calls, raceVars, stage, runs, fields_description,
                   tmpfile, docs, content, template, prompt, model, response,
                   extracted_data, validation_result, todo, events>>

\* app.py 180-183: os.unlink(tmp_file_path)
Unlink ==
    /\ pc = "finally"
    /\ tmpfile' = "deleted"
    /\ events' = events \o <<Ev("none", "unlink", "call", "none"),
                             Ev("none", "unlink", "return", "none")>>
    /\ pc' = "done"
    /\ UNCHANGED <<slotVars, calls, raceVars, stage, runs, fields_description,
                   docs, content, template, prompt, model, response,
                   extracted_data, validation_result, exc, todo, screen>>

\* app.py 183-185: os.unlink raises; except: pass
UnlinkRaise ==
    /\ pc = "finally"
    /\ events' = events \o <<Ev("none", "unlink", "call", "none"),
                             Ev("none", "unlink", "raise", "OSError")>>
    /\ pc' = "done"
    /\ UNCHANGED <<slotVars, calls, raceVars, stage, runs, fields_description,
                   tmpfile, docs, content, template, prompt, model, response,
                   extracted_data, validation_result, exc, todo, screen>>

-----------------------------------------------------------------------------
(* The specifications *)

RunInit ==
    /\ pc = "idle"
    /\ stage = "none"
    /\ runs = 0
    /\ fields_description = ""
    /\ tmpfile = "none"
    /\ docs = <<>>
    /\ content = <<>>
    /\ template = EmptyDict
    /\ prompt = EmptyDict
    /\ model = None
    /\ response = EmptyDict
    /\ extracted_data = EmptyDict
    /\ validation_result = EmptyDict
    /\ exc = "none"
    /\ todo = <<>>
    /\ events = <<>>
    /\ screen = <<>>

Init == SlotInit /\ calls = <<>> /\ RaceInit /\ RunInit

Next ==
    \/ Click
    \/ CreateTmp
    \/ CreateTmpRaise
    \/ WriteTmp
    \/ WriteTmpRaise
    \/ LoadPdf
    \/ LoadPdfRaise
    \/ ReadTemplate
    \/ ReadTemplateRaise
    \/ FormatPrompt
    \/ FormatPromptRaise
    \/ CallGetModel
    \/ CallGetModelRaise
    \/ Ainvoke
    \/ AinvokeRaise
    \/ Display
    \/ DisplayRaise
    \/ RenderField
    \/ RenderFieldRaise
    \/ RenderRaw
    \/ Except
    \/ Unlink
    \/ UnlinkRaise

Spec == Init /\ [][Next]_vars

ModelNext == \E json_mode \in BOOLEAN, ok \in BOOLEAN : GetModelCall(json_mode, ok)

SpecModel == Init /\ [][ModelNext]_vars

RaceNext ==
    \E t \in Threads :
        \/ \E json_mode \in BOOLEAN : TCall(t, json_mode)
        \/ TTest(t)
        \/ TInit(t)
        \/ TInitRaise(t)
        \/ TStore(t)
        \/ TReturn(t)

SpecRace == Init /\ [][RaceNext]_vars

-----------------------------------------------------------------------------
(* Properties *)

CallIdx == 1..Len(calls)
EvIdx == 1..Len(events)
ScreenIdx == 1..Len(screen)

\* C1: in a sequence of get_model calls, a later call in a mode returns the
\* very handle an earlier call in that mode returned, and constructs nothing;
\* calls in the two modes return handles that are different objects, and the
\* handle returned is the structured one exactly when json_mode is set.
C1_MemoizedPerMode ==
    /\ \A i, j \in CallIdx :
          (i < j /\ calls[i].json_mode = calls[j].json_mode /\ calls[i].ret # None)
              => (calls[j].ret = calls[i].ret /\ ~calls[j].built)
    /\ \A i, j \in CallIdx :
          (calls[i].json_mode # calls[j].json_mode
               /\ calls[i].ret # None /\ calls[j].ret # None)
              => calls[i].ret.id # calls[j].ret.id
    /\ \A i \in CallIdx :
          calls[i].ret # None => calls[i].ret.json = calls[i].json_mode

C1_Witness ==
    \E i, j, k \in CallIdx :
        /\ i < j
        /\ calls[i].json_mode /\ calls[j].json_mode /\ ~calls[k].json_mode
        /\ calls[i].built /\ calls[j].ret # None /\ calls[k].ret # None

\* C2: with get_model running in several threads at once, each of the two
\* globals is assigned at most once, and a return reads it only after that.
C2_WrittenAtMostOnce ==
    /\ \A s \in DOMAIN writes : writes[s] <= 1
    /\ \A t \in Threads : tpc[t] = "return" => Slot(tjm[t]) # None

\* C3: the extraction prompt is formatted only after ingestion returned;
\* every operation of the validation step comes after the extraction model
\* call returned; and no validation operation happens in a run in which the
\* extraction step raised.
C3_StagesInOrder ==
    /\ \A i \in EvIdx :
          (events[i].stage = "extract" /\ events[i].op = "format")
              => \E j \in 1..(i - 1) :
                    events[j] = Ev("extract", "load_pdf_content", "return", "none")
    /\ \A i \in EvIdx :
          events[i].stage = "validate"
              => \E j \in 1..(i - 1) :
                    events[j] = Ev("extract", "ainvoke", "return", "none")
    /\ (\E i \in EvIdx : events[i].stage = "validate")
          => ~\E j \in EvIdx : events[j].stage = "extract" /\ events[j].ev = "raise"

C3_Witness ==
    /\ pc = "display"
    /\ \E i \in EvIdx : events[i] = Ev("validate", "ainvoke", "return", "none")

\* C4: when load_pdf_content raises, extract_fields ends by raising that same
\* error, the handler's except clause receives it, and the run has no
\* template read, no formatting, no get_model and no model call.
C4_IngestionErrorPropagates ==
    \A i \in EvIdx :
        (events[i].op = "load_pdf_content" /\ events[i].ev = "raise")
            => /\ i < Len(events)
               /\ events[i + 1] = Ev("extract", "step", "raise", events[i].err)
               /\ (pc = "except" => exc = events[i].err)
               /\ \A j \in EvIdx :
                     events[j].op \notin
                         {"read_markdown_file", "format", "get_model", "ainvoke"}

C4_Witness ==
    /\ pc = "done"
    /\ \E i \in EvIdx :
          events[i] = Ev("extract", "load_pdf_content", "raise", "FileNotFoundError")

Count(op, st) ==
    Cardinality({i \in EvIdx :
                    events[i].op = op /\ events[i].stage = st /\ events[i].ev = "call"})

\* C5: in one run the ingestion call, the extraction model call and the
\* validation model call are each made at most once, and once an operation of
\* a step has raised, the run makes no further call of either step (and shows
\* no success).
C5_NoRetry ==
    /\ Count("load_pdf_content", "extract") <= 1
    /\ Count("ainvoke", "extract") <= 1
    /\ Count("ainvoke", "validate") <= 1
    /\ \A i, j \in EvIdx :
          (i < j /\ events[i].ev = "raise" /\ events[i].stage \in {"extract", "validate"})
              => (events[j].ev # "call" \/ events[j].op = "unlink")
    /\ (\E i \in EvIdx : events[i].op = "step" /\ events[i].ev = "raise")
          => \A k \in ScreenIdx : screen[k].kind # "success"

C5_Witness ==
    /\ pc = "done"
    /\ \E i \in EvIdx :
          events[i] = Ev("validate", "ainvoke", "raise", "APIConnectionError")

\* the error with which a step of main.py ended in this run, if one did
StepErrors == {events[i].err : i \in {j \in EvIdx :
                                        events[j].op = "step" /\ events[j].ev = "raise"}}

\* C6: a run in which ingestion, extraction or validation raised shows
\* nothing but the error message and the error detail, both of that error;
\* in particular not the extracted data of a run whose validation failed.
C6_FailureShowsOnlyError ==
    StepErrors # {} =>
        /\ \A k \in ScreenIdx : screen[k].kind \in {"error", "exception"}
        /\ pc \in {"finally", "done"} =>
              \E e \in StepErrors :
                  screen = <<[kind |-> "error", text |-> e],
                             [kind |-> "exception", text |-> e]>>

C6_Witness ==
    /\ pc = "done"
    /\ \E i \in EvIdx : events[i].stage = "validate" /\ events[i].op = "step"
                         /\ events[i].ev = "raise"
    /\ DOMAIN extracted_data = FieldNames

\* C7: extract_fields returns the very mapping the model call returned, and
\* so does validate_extracted_data: same keys, same values.
C7_ReturnsModelOutput ==
    /\ (stage = "validate" /\ pc = "read") => extracted_data = response
    /\ (stage = "render" /\ pc = "display") => validation_result = response

C7_Witness ==
    /\ stage = "render" /\ pc = "display"
    /\ DOMAIN extracted_data = FieldNames
    /\ ~Truthy(extracted_data["name"])
    /\ "field_evaluations" \in DOMAIN validation_result
    /\ validation_result["field_evaluations"] = EmptyDict

\* the state after load_pdf_content returned, inside extract_fields
Loaded == stage = "extract" /\ pc \in {"read", "format", "model", "invoke"}

RECURSIVE Offset(_)
\* the number of characters before chunk i in the joined text
Offset(i) == IF i = 1 THEN 0 ELSE Offset(i - 1) + Len(docs[i - 1].page_content) + 1

\* C8: with no chunk, load_pdf_content returns "PDF content unavailable";
\* with chunks, the text consists of the chunks' page contents in the
\* loader's order, every one of them, each two separated by one space.
C8_SentinelOrJoined ==
    Loaded =>
        IF Len(docs) = 0
        THEN content = Sentinel /\ content # <<>>
        ELSE /\ Len(content) = Offset(Len(docs)) + Len(docs[Len(docs)].page_content)
             /\ \A i \in 1..Len(docs) :
                   /\ SubSeq(content, Offset(i) + 1,
                             Offset(i) + Len(docs[i].page_content))
                          = docs[i].page_content
                   /\ i > 1 => content[Offset(i)] = " "

C8_Witness ==
    /\ Loaded
    /\ Len(docs) = MaxChunks
    /\ \A i \in 1..Len(docs) : Len(docs[i].page_content) = MaxChunkLen

FieldItems(k) == {i \in ScreenIdx : screen[i].kind = "field" /\ screen[i].field = k}

\* the rendering loop ran to its end
Rendered == \E i \in ScreenIdx : screen[i].kind = "raw_extracted"

HasFieldEvaluations == "field_evaluations" \in DOMAIN validation_result
Evaluated(k) == HasFieldEvaluations /\ k \in DOMAIN validation_result["field_evaluations"]
Scored(k) == Evaluated(k) /\ "score" \in DOMAIN validation_result["field_evaluations"][k]

\* C9 as stated: once the results are rendered every key of the extracted
\* data was rendered exactly once; a key without an evaluation, or whose
\* evaluation has no score, is rendered with score 0 and with no coverage,
\* correctness or issues, and rendering it raises no error.
C9_DefaultsForUnscored ==
    /\ \A k \in DOMAIN extracted_data : Cardinality(FieldItems(k)) <= 1
    /\ Rendered => \A k \in DOMAIN extracted_data : Cardinality(FieldItems(k)) = 1
    /\ \A i \in ScreenIdx :
          (screen[i].kind = "field" /\ ~Scored(screen[i].field))
              => (screen[i].score = DefaultScore /\ screen[i].detail = <<>>)
    /\ (stage = "render" /\ pc = "except" /\ todo # <<>>) => Scored(Head(todo))

\* the non-empty coverage, correctness and issues of a key's evaluation
Details(k) ==
    {d \in {"coverage", "correctness", "issues"} :
        /\ d \in DOMAIN validation_result["field_evaluations"][k]
        /\ validation_result["field_evaluations"][k][d] # Str("")}

\* C9 as the code has it: as above for a key without an evaluation; a key
\* whose evaluation has no score is rendered with score 0, without an error,
\* together with the non-empty coverage, correctness and issues of that
\* evaluation.
C9_DefaultsForUnevaluated ==
    /\ \A k \in DOMAIN extracted_data : Cardinality(FieldItems(k)) <= 1
    /\ Rendered => \A k \in DOMAIN extracted_data : Cardinality(FieldItems(k)) = 1
    /\ \A i \in ScreenIdx :
          (screen[i].kind = "field" /\ ~Evaluated(screen[i].field))
              => (screen[i].score = DefaultScore /\ screen[i].detail = <<>>)
    /\ \A i \in ScreenIdx :
          (screen[i].kind = "field" /\ Evaluated(screen[i].field)
               /\ ~Scored(screen[i].field))
              => /\ screen[i].score = DefaultScore
                 /\ {screen[i].detail[n].label : n \in DOMAIN screen[i].detail}
                        = Details(screen[i].field)
                 /\ \A n \in DOMAIN screen[i].detail :
                       screen[i].detail[n].text =
                           validation_result["field_evaluations"][screen[i].field]
                               [screen[i].detail[n].label]
    /\ (stage = "render" /\ pc = "except" /\ todo # <<>>) => Scored(Head(todo))

C9_Witness ==
    /\ Rendered
    /\ DOMAIN extracted_data = FieldNames
    /\ Evaluated("name") /\ ~Scored("name") /\ Details("name") # {}
    /\ ~Evaluated("skills")

\* C10: a run that created the temporary file has called os.unlink on it by
\* the time it ends, and an error of os.unlink is not an error of the run.
C10_TmpFileUnlinked ==
    pc = "done" =>
        /\ (\E i \in EvIdx : events[i] = Ev("none", "tmp_create", "return", "none"))
              => \E j \in EvIdx : events[j].op = "unlink" /\ events[j].ev = "call"
        /\ (\E j \in EvIdx : events[j].op = "unlink" /\ events[j].ev = "raise")
              => exc = "none"

====
